---- MODULE Spec2Model ----
(***************************************************************************)
(* pselect7(): a retrying wrapper around pselect() (src/pselect7.c).       *)
(*                                                                         *)
(* One call of pselect7 is modelled statement by statement.  The program   *)
(* counter pc names the source line about to execute:                      *)
(*    "l8"  if (signals_received != NULL) *signals_received = 0;           *)
(*    "l10" retval = pselect(nfds, readfds, writefds, exceptfds,           *)
(*                           timeout, sigmask);                            *)
(*    "l12" if (retval != -1 || errno != EINTR) return retval;             *)
(*    "l15" if (signals_received != NULL) *signals_received = 1;           *)
(*    "l16" timeout = &zeroto;                                             *)
(*    "done"  pselect7 has returned retval                                 *)
(*    "fault" a store through a NULL pointer was attempted                 *)
(*                                                                         *)
(* pselect() itself is the platform's primitive.  It is modelled by its    *)
(* POSIX contract: on success the three sets are overwritten with the      *)
(* ready descriptors among those that were set on input and the number of  *)
(* bits set is returned (0 = the timeout expired); on failure -1 is        *)
(* returned, errno is set and the sets are not modified.                   *)
(***************************************************************************)
EXTENDS Integers, Sequences, FiniteSets, TLC

\* ---- bounds ------------------------------------------------------------
NumFds == 1       \* descriptors 0 .. NumFds-1 may appear in the sets
MaxCalls == 3     \* at most MaxCalls underlying pselect() invocations

\* ---- values ------------------------------------------------------------
NULL == "NULL"
EINTR == "EINTR"
OtherErrnos == {"EBADF", "EINVAL"}
NoErrno == "0"
FDS == 0 .. (NumFds - 1)
Class == {"readfds", "writefds", "exceptfds"}
\* the caller's objects, named by their address
RSET == "&rset"
WSET == "&wset"
ESET == "&eset"
TS == "&ts"
MASK == "&mask"
SR == "&signals_received"
ZEROTO == "&zeroto"
zeroto == <<0, 0>>
NoTimeout == <<>>
Garbage == 7

VARIABLES
  nfds, readfds, writefds, exceptfds, timeout, sigmask, signals_received,
  retval, errno, pc,
  fdsets,     \* contents of the caller's three fd_set objects
  ts_mem,     \* contents of the caller's struct timespec
  sr_mem,     \* contents of the caller's int signals_received
  fault,      \* a store through NULL happened
  calls,      \* history: one record per underlying pselect() invocation
  pending,    \* history: readiness that held at every attempt so far
  entry,      \* history: the caller's memory at entry to pselect7
  unlogged,   \* history: interrupted retries happened that calls leaves out
  twin        \* a second run of the same call with signals_received == NULL

vars == <<nfds, readfds, writefds, exceptfds, timeout, sigmask,
          signals_received, retval, errno, pc, fdsets, ts_mem, sr_mem,
          fault, calls, pending, entry, unlogged, twin>>

args == <<nfds, readfds, writefds, exceptfds, sigmask, signals_received>>

\* ---- helpers -----------------------------------------------------------
Ptr(c) == CASE c = "readfds" -> readfds
            [] c = "writefds" -> writefds
            [] c = "exceptfds" -> exceptfds

\* the descriptors the call asks about, per class
Interest(c) == IF Ptr(c) = NULL THEN {} ELSE fdsets[c]

\* the struct timespec a timeout pointer designates
TimeoutValue(p, ts) == IF p = NULL THEN NoTimeout
                       ELSE IF p = ZEROTO THEN zeroto ELSE ts

Count(sets) == Cardinality(sets["readfds"]) + Cardinality(sets["writefds"])
               + Cardinality(sets["exceptfds"])

\* *ptr = v
Deref(ptr, v, old) == IF ptr = NULL THEN [fault |-> TRUE, val |-> old]
                      ELSE [fault |-> FALSE, val |-> v]

\* variant: the initialisation at line 8 is left out
ClearFlagMissing(ptr, old) == [fault |-> FALSE, val |-> old]

\* line 8: if (signals_received != NULL) *signals_received = 0;
ClearFlag(ptr, old) == IF ptr # NULL THEN Deref(ptr, 0, old)
                       ELSE [fault |-> FALSE, val |-> old]

\* variant: the flag counts the interruptions
MarkFlagCount(ptr, old) == IF ptr # NULL THEN Deref(ptr, old + 1, old)
                           ELSE [fault |-> FALSE, val |-> old]

\* variant: the store at line 15 is left out
MarkFlagMissing(ptr, old) == [fault |-> FALSE, val |-> old]

\* variant: the NULL test at line 15 is left out
MarkFlagNoCheck(ptr, old) == Deref(ptr, 1, old)

\* line 15: if (signals_received != NULL) *signals_received = 1;
MarkFlag(ptr, old) == IF ptr # NULL THEN Deref(ptr, 1, old)
                      ELSE [fault |-> FALSE, val |-> old]

\* variant: && in place of ||
ShouldReturnAnd(rv, e) == rv # -1 /\ e # EINTR

\* variant: every failure is retried
ShouldReturnAnyErr(rv, e) == rv # -1

\* variant: no retry at all (plain pselect)
ShouldReturnAlways(rv, e) == TRUE

\* line 12: retval != -1 || errno != EINTR
ShouldReturn(rv, e) == rv # -1 \/ e # EINTR

\* variant: the zero timeout is stored into the caller's struct timespec
TimespecOverwritten(t, ts) == IF t = TS THEN zeroto ELSE ts

\* line 16 redirects the local pointer, the struct timespec it pointed to
\* (const struct timespec *timeout) keeps its contents
TimespecAfterRetry(t, ts) == ts

\* variant: the retry keeps the caller's timeout
RetryTimeoutKeep(t) == t

\* line 16: timeout = &zeroto;
RetryTimeout(t) == ZEROTO

\* variant: the zero-timeout retries are made without the signal mask
InvocationNoMask(t, ts) ==
  [nfds |-> nfds, readfds |-> readfds, writefds |-> writefds,
   exceptfds |-> exceptfds, timeout |-> t, tv |-> TimeoutValue(t, ts),
   sigmask |-> IF t = ZEROTO THEN NULL ELSE sigmask]

\* the argument list of pselect() at line 10-11
Invocation(t, ts) ==
  [nfds |-> nfds, readfds |-> readfds, writefds |-> writefds,
   exceptfds |-> exceptfds, timeout |-> t, tv |-> TimeoutValue(t, ts),
   sigmask |-> sigmask]

\* ---- the twin run: the same call made with signals_received == NULL ----
\* (it sees the same pselect() results; idle unless started by InitPair)
Twin8(t) ==
  IF t.pc # "l8" THEN t
  ELSE LET w == ClearFlag(NULL, 0) IN
       [t EXCEPT !.fault = w.fault, !.pc = IF w.fault THEN "fault" ELSE "l10"]

Twin10(t, ret, e) ==
  IF t.pc # "l10" THEN t
  ELSE [t EXCEPT !.retval = ret, !.errno = e, !.pc = "l12",
                 !.calls = Append(@, Invocation(t.timeout, ts_mem))]

Twin12(t) ==
  IF t.pc # "l12" THEN t
  ELSE [t EXCEPT !.pc = IF ShouldReturn(t.retval, t.errno) THEN "done"
                        ELSE "l15"]

Twin15(t) ==
  IF t.pc # "l15" THEN t
  ELSE LET w == MarkFlag(NULL, 0) IN
       [t EXCEPT !.fault = w.fault, !.pc = IF w.fault THEN "fault" ELSE "l16"]

Twin16(t) ==
  IF t.pc # "l16" THEN t
  ELSE [t EXCEPT !.timeout = RetryTimeout(t.timeout), !.pc = "l10"]

\* ---- initial states ----------------------------------------------------
TwinIdle == [pc |-> "idle", timeout |-> NULL, retval |-> 0, errno |-> NoErrno,
             calls |-> <<>>, fault |-> FALSE]

\* the caller passes the highest descriptor in any of its sets, plus 1
HighestPlus1(sets) ==
  LET all == sets["readfds"] \cup sets["writefds"] \cup sets["exceptfds"] IN
    IF all = {} THEN 0 ELSE (CHOOSE d \in all : \A o \in all : o <= d) + 1

InitCall ==
  /\ readfds \in {NULL, RSET}
  /\ writefds \in {NULL, WSET}
  /\ exceptfds \in {NULL, ESET}
  /\ fdsets \in [Class -> SUBSET FDS]
  /\ \A c \in Class : Ptr(c) = NULL => fdsets[c] = {}
  /\ nfds = HighestPlus1(fdsets)
  /\ timeout \in {NULL, TS}
  /\ ts_mem \in {<<0, 0>>, <<1, 500>>}
  /\ timeout = NULL => ts_mem = <<0, 0>>
  /\ sigmask \in {NULL, MASK}
  /\ signals_received \in {NULL, SR}
  /\ sr_mem \in {0, Garbage}
  /\ signals_received = NULL => sr_mem = Garbage
  /\ errno \in {NoErrno, EINTR}
  /\ retval = 0
  /\ pc = "l8"
  /\ fault = FALSE
  /\ calls = <<>>
  /\ pending = [c \in Class |-> {}]
  /\ unlogged = FALSE
  /\ entry = [fdsets |-> fdsets, ts_mem |-> ts_mem, sr_mem |-> sr_mem,
              errno |-> errno, timeout |-> timeout]

Init == InitCall /\ twin = TwinIdle

\* the call together with its twin, for comparing the two runs
InitPair ==
  /\ InitCall
  /\ signals_received = SR
  /\ twin = [TwinIdle EXCEPT !.pc = "l8", !.timeout = timeout, !.errno = errno]

\* ---- pselect7, line by line -------------------------------------------
Stmt8 ==
  /\ pc = "l8"
  /\ LET w == ClearFlag(signals_received, sr_mem) IN
       /\ sr_mem' = w.val
       /\ fault' = w.fault
       /\ pc' = IF w.fault THEN "fault" ELSE "l10"
  /\ twin' = Twin8(twin)
  /\ UNCHANGED <<args, timeout, retval, errno, fdsets, ts_mem, calls,
                 pending, entry, unlogged>>

\* pselect() returns ret with errno e and the sets left as out; R is the
\* readiness that held during the attempt
PselectOutcome(ret, e, out, R) ==
  /\ pc = "l10"
  /\ Len(calls) < MaxCalls
  /\ retval' = ret
  /\ errno' = e
  /\ fdsets' = out
  /\ calls' = Append(calls, Invocation(timeout, ts_mem) @@
                     [in |-> fdsets, out |-> out, ret |-> ret, err |-> e])
  /\ pending' = R
  /\ pc' = "l12"
  /\ twin' = Twin10(twin, ret, e)
  /\ UNCHANGED <<args, timeout, ts_mem, sr_mem, fault, entry, unlogged>>

Readiness == {R \in [Class -> SUBSET FDS] : \A c \in Class : R[c] \subseteq Interest(c)}

\* of the readiness R of this attempt, what has held at every attempt
StillReady(R) == IF calls = <<>> THEN R
                 ELSE [c \in Class |-> pending[c] \cap R[c]]

\* some descriptors of interest are ready
PselectReady ==
  \E R \in Readiness :
    /\ Count(R) > 0
    /\ PselectOutcome(Count(R), errno, R, StillReady(R))

\* the timeout expires with nothing ready (a NULL timeout never expires)
PselectTimeout ==
  /\ timeout # NULL
  /\ LET none == [c \in Class |-> {}] IN PselectOutcome(0, errno, none, none)

\* a signal handler ran: EINTR, sets untouched, whatever was ready is dropped
PselectInterrupted ==
  \E R \in Readiness :
    /\ Len(calls) + 1 < MaxCalls
    /\ PselectOutcome(-1, EINTR, fdsets, StillReady(R))

\* any other failure
PselectFails ==
  \E e \in OtherErrnos : PselectOutcome(-1, e, fdsets, pending)

Stmt12Return ==
  /\ pc = "l12"
  /\ ShouldReturn(retval, errno)
  /\ pc' = "done"
  /\ twin' = Twin12(twin)
  /\ UNCHANGED <<args, timeout, retval, errno, fdsets, ts_mem, sr_mem, fault,
                 calls, pending, entry, unlogged>>

Stmt12Retry ==
  /\ pc = "l12"
  /\ ~ShouldReturn(retval, errno)
  /\ pc' = "l15"
  /\ twin' = Twin12(twin)
  /\ UNCHANGED <<args, timeout, retval, errno, fdsets, ts_mem, sr_mem, fault,
                 calls, pending, entry, unlogged>>

Stmt15 ==
  /\ pc = "l15"
  /\ LET w == MarkFlag(signals_received, sr_mem) IN
       /\ sr_mem' = w.val
       /\ fault' = w.fault
       /\ pc' = IF w.fault THEN "fault" ELSE "l16"
  /\ twin' = Twin15(twin)
  /\ UNCHANGED <<args, timeout, retval, errno, fdsets, ts_mem, calls,
                 pending, entry, unlogged>>

Stmt16 ==
  /\ pc = "l16"
  /\ timeout' = RetryTimeout(timeout)
  /\ ts_mem' = TimespecAfterRetry(timeout, ts_mem)
  /\ pc' = "l10"
  /\ twin' = Twin16(twin)
  /\ UNCHANGED <<args, retval, errno, fdsets, sr_mem, fault, calls,
                 pending, entry, unlogged>>

Next ==
  \/ Stmt8
  \/ PselectReady
  \/ PselectTimeout
  \/ PselectInterrupted
  \/ PselectFails
  \/ Stmt12Return
  \/ Stmt12Retry
  \/ Stmt15
  \/ Stmt16

Spec == Init /\ [][Next]_vars

\* a retry interrupted once more after the history is full: the program
\* state changes as in PselectInterrupted, the last record of calls stands
\* for all further interrupted retries (only for the call without twin)
PselectInterruptedAgain ==
  \E R \in Readiness :
    /\ pc = "l10"
    /\ twin.pc = "idle"
    /\ Len(calls) >= 1 /\ Len(calls) = MaxCalls - 1
    /\ retval' = -1
    /\ errno' = EINTR
    /\ pending' = StillReady(R)
    /\ pc' = "l12"
    /\ unlogged' = TRUE
    /\ UNCHANGED <<args, timeout, fdsets, ts_mem, sr_mem, fault, calls,
                   entry, twin>>

NextLive == Next \/ PselectInterruptedAgain

\* the statements of pselect7 always get to run
Statements == Stmt8 \/ Stmt12Return \/ Stmt12Retry \/ Stmt15 \/ Stmt16

\* pselect() comes back with a count or with an error other than EINTR
NotInterrupted == PselectReady \/ PselectTimeout \/ PselectFails

\* the calls the progress properties are checked on: no exception set
InitLive == Init /\ exceptfds = NULL

\* signals may interrupt every attempt for ever
SpecStorm == InitLive /\ [][NextLive]_vars /\ WF_vars(NextLive)

\* the underlying wait is not interrupted for ever
SpecLive ==
  InitLive /\ [][NextLive]_vars /\ WF_vars(Statements) /\ SF_vars(NotInterrupted)

SpecPair == InitPair /\ [][Next]_vars

TypeOK ==
  /\ pc \in {"l8", "l10", "l12", "l15", "l16", "done", "fault"}
  /\ retval \in -1 .. (3 * NumFds)
  /\ Len(calls) <= MaxCalls

\* ---- vocabulary of the properties --------------------------------------
Returned == pc = "done"
NCalls == Len(calls)
Interrupted(i) == calls[i].ret = -1 /\ calls[i].err = EINTR
Failed(i) == calls[i].ret = -1 /\ calls[i].err # EINTR
AllInterrupted(k) == \A i \in 1 .. k : Interrupted(i)
HasFlag == signals_received # NULL
Args(r) == [nfds |-> r.nfds, readfds |-> r.readfds, writefds |-> r.writefds,
            exceptfds |-> r.exceptfds, timeout |-> r.timeout, tv |-> r.tv,
            sigmask |-> r.sigmask]

\* C1: when attempts 1..k (k >= 1) fail with EINTR and attempt k+1 returns a
\* count M >= 0, attempt k+1 is the last one, pselect7 returns M and the
\* flag is 1 on return, for M = 0 as for M > 0.
C1_InterruptedThenCount ==
  \A k \in 1 .. NCalls :
    (k + 1 <= NCalls /\ AllInterrupted(k) /\ calls[k + 1].ret >= 0)
      => /\ NCalls = k + 1
         /\ pc \in {"l12", "done"}
         /\ Returned => /\ retval = calls[k + 1].ret
                        /\ HasFlag => sr_mem = 1

C1_Witness ==
  /\ Returned /\ HasFlag
  /\ NCalls = 3 /\ AllInterrupted(2)
  /\ retval > 0 /\ sr_mem = 1

\* C2: when the first attempt returns a count N >= 0, it is the only
\* attempt, pselect7 returns N and the flag is 0 on return.
C2_FirstAttemptCount ==
  (NCalls >= 1 /\ calls[1].ret >= 0)
    => /\ NCalls = 1
       /\ pc \in {"l12", "done"}
       /\ Returned => /\ retval = calls[1].ret
                      /\ HasFlag => sr_mem = 0

C2_Witness ==
  /\ Returned /\ HasFlag
  /\ NCalls = 1 /\ retval = 0
  /\ entry.sr_mem = Garbage /\ entry.errno = EINTR /\ sr_mem = 0

\* C3: the first pselect invocation gets the caller's timeout (NULL
\* included), every later one gets the zero timeout {0,0}.
C3_TimeoutPerInvocation ==
  \A i \in 1 .. NCalls :
    IF i = 1
    THEN /\ calls[i].timeout = entry.timeout
         /\ calls[i].tv = TimeoutValue(entry.timeout, entry.ts_mem)
    ELSE /\ calls[i].timeout = ZEROTO
         /\ calls[i].tv = <<0, 0>>

C3_Witness ==
  /\ Returned
  /\ NCalls = 3 /\ AllInterrupted(2) /\ retval = 3
  /\ calls[1].tv = <<1, 500>>
  /\ calls[2].tv = <<0, 0>> /\ calls[3].tv = <<0, 0>>

\* C4: when the first attempt fails with an error other than EINTR, it is
\* the only attempt and pselect7 returns its -1 with that errno.
C4_FirstAttemptError ==
  (NCalls >= 1 /\ Failed(1))
    => /\ NCalls = 1
       /\ pc \in {"l12", "done"}
       /\ Returned => (retval = -1 /\ errno = calls[1].err)

C4_Witness ==
  Returned /\ NCalls = 1 /\ retval = -1 /\ errno = "EBADF"

\* C5: pselect7 never returns -1 with errno == EINTR.
C5_NeverReturnsEINTR ==
  Returned => ~(retval = -1 /\ errno = EINTR)

C5_Witness ==
  Returned /\ HasFlag /\ NCalls >= 2 /\ Interrupted(1) /\ sr_mem = 1

\* C6: after return, when retval > 0 or signals_received > 0, neither
\* (retval == 0 and signals_received == 0) nor retval < 0 holds.
C6_ExclusiveOutcomes ==
  (Returned /\ HasFlag /\ (retval > 0 \/ sr_mem > 0))
    => /\ ~(retval = 0 /\ sr_mem = 0)
       /\ ~(retval < 0)

\* C7: the sets on return are what the returned attempt left, that attempt
\* is the first not interrupted, no earlier attempt wrote to the sets, and
\* each retry is made on the same objects with the contents the interrupted
\* attempt before it left.
C7_SetsFromOneAttempt ==
  /\ \A i \in 1 .. NCalls :
       /\ i < NCalls => (Interrupted(i) /\ calls[i].out = entry.fdsets)
       /\ i > 1 => /\ calls[i].in = calls[i - 1].out
                   /\ calls[i].readfds = calls[1].readfds
                   /\ calls[i].writefds = calls[1].writefds
                   /\ calls[i].exceptfds = calls[1].exceptfds
  /\ NCalls >= 1 => (calls[1].in = entry.fdsets /\ calls[1].readfds = readfds
                     /\ calls[1].writefds = writefds
                     /\ calls[1].exceptfds = exceptfds)
  /\ Returned => fdsets = calls[NCalls].out

C7_Witness ==
  /\ Returned /\ NCalls = 3 /\ retval > 0
  /\ fdsets # entry.fdsets
  /\ \E c \in Class : pending[c] # fdsets[c]

C9_NullFlagSameBehaviour ==
  /\ twin.fault = FALSE
  /\ twin.pc = pc
  /\ twin.timeout = timeout
  /\ twin.calls = [i \in 1 .. NCalls |-> Args(calls[i])]
  /\ pc \in {"l12", "done"} => (twin.retval = retval /\ twin.errno = errno)

C9_Witness ==
  /\ Returned /\ twin.pc = "done"
  /\ Len(twin.calls) = 3 /\ twin.calls[3].timeout = ZEROTO
  /\ sr_mem = 1 /\ twin.retval = retval

\* C10 as stated: after a single failing attempt the caller's
\* signals_received holds the value it held before the call.
C10_FlagUntouched ==
  (Returned /\ HasFlag /\ NCalls = 1 /\ Failed(1))
    => (retval = -1 /\ sr_mem = entry.sr_mem)

\* C10 amended: after a single failing attempt pselect7 returns -1 and the
\* flag is 0 whatever it held before; nothing is stored when the pointer is
\* NULL.
C10_FlagClearedOnError ==
  (Returned /\ NCalls = 1 /\ Failed(1))
    => /\ retval = -1
       /\ HasFlag => sr_mem = 0
       /\ ~HasFlag => sr_mem = entry.sr_mem

C10_Witness ==
  /\ Returned /\ HasFlag /\ NCalls = 1 /\ Failed(1)
  /\ entry.sr_mem = Garbage /\ sr_mem = 0

\* C11: the caller's struct timespec holds at every point of the call, and
\* on return, the contents it had at entry; the local timeout pointer is
\* either the caller's pointer or the address of the internal zeroto.
C11_CallerTimeoutKept ==
  /\ ts_mem = entry.ts_mem
  /\ timeout \in {entry.timeout, ZEROTO}
  /\ \A i \in 1 .. NCalls :
       calls[i].timeout = TS => calls[i].tv = entry.ts_mem

C11_Witness ==
  /\ Returned /\ NCalls = 3 /\ AllInterrupted(2)
  /\ entry.timeout = TS /\ entry.ts_mem = <<1, 500>>
  /\ timeout = ZEROTO /\ ts_mem = <<1, 500>>

C14_FlagIffInterrupted ==
  (Returned /\ HasFlag)
    => /\ sr_mem = 1 <=> (\E i \in 1 .. NCalls : Interrupted(i))
       /\ sr_mem = 0 <=> ~(\E i \in 1 .. NCalls : Interrupted(i))
       /\ sr_mem = 0 => /\ NCalls = 1
                        /\ calls[1].timeout = entry.timeout
                        /\ calls[1].tv = TimeoutValue(entry.timeout,
                                                      entry.ts_mem)
       /\ (sr_mem = 0 /\ retval = 0) => (entry.timeout = TS /\ calls[1].ret = 0)

C14_Witness ==
  /\ Returned /\ HasFlag /\ entry.sr_mem = Garbage
  /\ NCalls = 2 /\ Interrupted(1) /\ retval = 0 /\ sr_mem = 1

\* C15: every pselect invocation of the call gets the nfds, the three set
\* pointers and the signal mask pselect7 was called with; two invocations
\* differ at most in the timeout.
C15_SameArgumentsEachAttempt ==
  \A i \in 1 .. NCalls :
    /\ calls[i].nfds = nfds
    /\ calls[i].readfds = readfds
    /\ calls[i].writefds = writefds
    /\ calls[i].exceptfds = exceptfds
    /\ calls[i].sigmask = sigmask
    /\ [Args(calls[i]) EXCEPT !.timeout = NULL, !.tv = NoTimeout]
         = [Args(calls[1]) EXCEPT !.timeout = NULL, !.tv = NoTimeout]

C15_Witness ==
  /\ NCalls = 3 /\ AllInterrupted(2)
  /\ sigmask = MASK /\ calls[3].sigmask = MASK /\ calls[3].timeout = ZEROTO
  /\ calls[1].timeout = TS /\ calls[3].nfds > 0 /\ calls[3].readfds = RSET

\* C16: with a non-NULL signals_received the flag is 0 or 1 from line 8 on,
\* it is 1 after any number of interruptions, and a step never takes it
\* from 1 back to 0.
C16_FlagBinaryMonotone ==
  /\ [](HasFlag /\ pc \notin {"l8", "fault"}
          => /\ sr_mem \in {0, 1}
             /\ (pc \in {"l16", "l10"} /\ NCalls >= 1) => sr_mem = 1)
  /\ [][(HasFlag /\ pc # "l8" /\ sr_mem = 1) => sr_mem' = 1]_vars

C16_Witness ==
  /\ HasFlag /\ entry.sr_mem = Garbage
  /\ pc = "l10" /\ NCalls = 2 /\ AllInterrupted(2) /\ sr_mem = 1

\* C13: an attempt that is not interrupted is the last attempt and pselect7
\* returns after it; every attempt after the first is made with the zero
\* timeout; when the underlying wait is not interrupted for ever, the call
\* returns.
C13_ReturnsUnlessInterruptedForEver ==
  /\ [](\A i \in 1 .. NCalls :
          ~Interrupted(i) => (i = NCalls /\ pc \in {"l12", "done"}))
  /\ [](((pc = "l10" /\ NCalls >= 1) \/ pc \in {"l15", "l16"})
          => (retval = -1 /\ errno = EINTR))
  /\ []((pc = "l10" /\ NCalls >= 1) => timeout = ZEROTO)
  /\ [][(pc = "l12" /\ ~(retval = -1 /\ errno = EINTR)) => pc' = "done"]_vars
  /\ <>Returned

\* the property that fails when signals keep interrupting the retries
StormReturns == <>Returned

C13_Witness ==
  /\ Returned /\ unlogged /\ NCalls = MaxCalls /\ AllInterrupted(NCalls - 1)
  /\ retval = 0 /\ timeout = ZEROTO
====
